---- MODULE Spec2Model ----
(***************************************************************************)
(* The snake game of src/src/main.rs as a state machine: the input thread  *)
(* that feeds the mpsc channel, the update closure (drain of the channel,  *)
(* get_step, update/advance) and the render closure, scheduled by          *)
(* game_loop(g, 4, 0.16, update, render).                                  *)
(*                                                                         *)
(* A cell is <<row, col>> (the tuple (usize, usize) of the source, .0 the  *)
(* row and .1 the column).  The snake is a sequence, front (index 1) the   *)
(* tail and back the head, as the VecDeque of the source.                  *)
(***************************************************************************)
EXTENDS Integers, Sequences, FiniteSets

\* ---------------------------------------------------------------- bounds

\* Largest board explored: rows in 1..MaxRows, columns in InitLen..MaxCols.
MaxRows == 2
MaxCols == 5
\* Commands found in the channel by one tick (Spec).
MaxQueue == 2
\* Ticks (calls of the update closure) of one game (Spec).
MaxTicks == 3
\* Direction commands the input thread sends in one game (ThreadsSpec).
MaxTurns == 3
\* Direction commands the input thread sends in one game (FairSpec).
MaxBurst == 2
\* Largest board of a game without input (QuietSpec): rows in 1..MaxRunRows,
\* columns in InitLen..MaxRunCols.
MaxRunRows == 5
MaxRunCols == 7

\* Length of the initial snake: for n in 0..5.
InitLen == 5

\* ------------------------------------------------------------- data types

Direction == {"Left", "Up", "Right", "Down"}

Input == {"Left", "Up", "Right", "Down", "Exit"}

\* The key events the input thread tells apart; "other" is any other event.
Keys == {"w", "a", "s", "d", "q", "KeyUp", "KeyDown", "KeyLeft", "KeyRight", "other"}

Range(s) == {s[i] : i \in 1..Len(s)}

Cells(size) == (0..(size[1] - 1)) \X (0..(size[2] - 1))

\* ------------------------------------------------------- pure functions

\* The event-to-Input mapping of the input thread; "none" when nothing is sent.
KeyToInput(k) ==
    CASE k \in {"w", "KeyUp"} -> "Up"
      [] k \in {"d", "KeyRight"} -> "Right"
      [] k \in {"s", "KeyDown"} -> "Down"
      [] k \in {"a", "KeyLeft"} -> "Left"
      [] k = "q" -> "Exit"
      [] OTHER -> "none"

\* impl TryFrom<Input> for Direction: "Err" stands for Err(InputError::Exit).
try_from(value) ==
    CASE value = "Up" -> "Up"
      [] value = "Right" -> "Right"
      [] value = "Down" -> "Down"
      [] value = "Left" -> "Left"
      [] value = "Exit" -> "Err"

\* A wrong validator: it also rejects the no-op turn.
valid_direction_mut(cur_direction, new_direction) ==
    CASE new_direction = "Up" /\ cur_direction \in {"Down", "Up"} -> FALSE
      [] new_direction = "Down" /\ cur_direction = "Up" -> FALSE
      [] new_direction = "Right" /\ cur_direction = "Left" -> FALSE
      [] new_direction = "Left" /\ cur_direction = "Right" -> FALSE
      [] OTHER -> TRUE

\* Direction::valid_direction
valid_direction(cur_direction, new_direction) ==
    CASE new_direction = "Up" /\ cur_direction = "Down" -> FALSE
      [] new_direction = "Down" /\ cur_direction = "Up" -> FALSE
      [] new_direction = "Right" /\ cur_direction = "Left" -> FALSE
      [] new_direction = "Left" /\ cur_direction = "Right" -> FALSE
      [] OTHER -> TRUE

\* The match of the drain loop (main.rs 32-46): the heading after one drained
\* direction.
drain_turn(cur, d) ==
    CASE d = "Up" /\ cur # "Down" -> d
      [] d = "Down" /\ cur # "Up" -> d
      [] d = "Right" /\ cur # "Left" -> d
      [] d = "Left" /\ cur # "Right" -> d
      [] OTHER -> cur

Turn(d) == [type |-> "Turn", step_direction |-> d, new_direction |-> d]

MoveAndTurn(s, n) == [type |-> "MoveAndTurn", step_direction |-> s, new_direction |-> n]

\* A wrong resolver: the fallback takes the initial heading, not the current.
get_step_mut(cur, input) ==
    CASE Len(input) = 1 /\ valid_direction(cur, input[1]) -> Turn(input[1])
      [] Len(input) >= 2
         /\ valid_direction(cur, input[Len(input) - 1])
         /\ valid_direction(input[Len(input) - 1], input[Len(input)]) ->
            MoveAndTurn(input[Len(input) - 1], input[Len(input)])
      [] OTHER -> Turn("Right")

\* Game::get_step, cur being self.direction
get_step(cur, input) ==
    CASE Len(input) = 1 /\ valid_direction(cur, input[1]) -> Turn(input[1])
      [] Len(input) >= 2
         /\ valid_direction(cur, input[Len(input) - 1])
         /\ valid_direction(input[Len(input) - 1], input[Len(input)]) ->
            MoveAndTurn(input[Len(input) - 1], input[Len(input)])
      [] OTHER -> Turn(cur)

Ok(pos) == [ok |-> TRUE, pos |-> pos]

OutOfBoundsErr == [ok |-> FALSE, pos |-> <<0, 0>>]

\* A wrong next_pos: Up and Down are exchanged.
next_pos_mut(sn, dir) ==
    LET head == sn[Len(sn)] IN
    CASE dir = "Down" -> IF head[1] >= 1 THEN Ok(<<head[1] - 1, head[2]>>) ELSE OutOfBoundsErr
      [] dir = "Left" -> IF head[2] >= 1 THEN Ok(<<head[1], head[2] - 1>>) ELSE OutOfBoundsErr
      [] dir = "Up" -> Ok(<<head[1] + 1, head[2]>>)
      [] dir = "Right" -> Ok(<<head[1], head[2] + 1>>)

\* Game::next_pos: checked_sub turns a decrement below zero into OutOfBounds.
next_pos(sn, dir) ==
    LET head == sn[Len(sn)] IN
    CASE dir = "Up" -> IF head[1] >= 1 THEN Ok(<<head[1] - 1, head[2]>>) ELSE OutOfBoundsErr
      [] dir = "Left" -> IF head[2] >= 1 THEN Ok(<<head[1], head[2] - 1>>) ELSE OutOfBoundsErr
      [] dir = "Down" -> Ok(<<head[1] + 1, head[2]>>)
      [] dir = "Right" -> Ok(<<head[1], head[2] + 1>>)

\* A wrong check_pos: the column bound is off by one.
check_pos_mut(pos, size, apple, sn) ==
    IF pos[2] > size[2] \/ pos[1] >= size[1] THEN "OutOfBounds"
    ELSE IF pos[2] = apple[2] /\ pos[1] = apple[1] THEN "Apple"
    ELSE IF \E i \in 1..Len(sn) : pos[1] = sn[i][1] /\ pos[2] = sn[i][2] THEN "SnakeBite"
    ELSE "Empty"

\* A wrong check_pos: the row bound is not tested.
check_pos_norow_mut(pos, size, apple, sn) ==
    IF pos[2] >= size[2] THEN "OutOfBounds"
    ELSE IF pos[2] = apple[2] /\ pos[1] = apple[1] THEN "Apple"
    ELSE IF \E i \in 1..Len(sn) : pos[1] = sn[i][1] /\ pos[2] = sn[i][2] THEN "SnakeBite"
    ELSE "Empty"

\* Game::check_pos: bounds, then the apple, then the snake.
check_pos(pos, size, apple, sn) ==
    IF pos[2] >= size[2] \/ pos[1] >= size[1] THEN "OutOfBounds"
    ELSE IF pos[2] = apple[2] /\ pos[1] = apple[1] THEN "Apple"
    ELSE IF \E i \in 1..Len(sn) : pos[1] = sn[i][1] /\ pos[2] = sn[i][2] THEN "SnakeBite"
    ELSE "Empty"

\* A wrong gen_apple: the remainders are taken modulo max + 1.
gen_apple_mut(max_x, max_y) == (0..max_x) \X (0..max_y)

\* Game::gen_apple: the cells random() % max_x, random() % max_y can give.
gen_apple(max_x, max_y) == (0..(max_x - 1)) \X (0..(max_y - 1))

\* A wrong advance: an Empty cell does not pop the tail.
advance_nopop_mut(sn, apple, size, dir) ==
    LET np == next_pos(sn, dir) IN
    IF ~np.ok THEN [snake |-> sn, new_apple |-> FALSE, res |-> "OutOfBounds"]
    ELSE LET st == check_pos(np.pos, size, apple, sn) IN
         CASE st \in {"OutOfBounds", "SnakeBite"} ->
                [snake |-> sn, new_apple |-> FALSE, res |-> st]
           [] st = "Apple" ->
                [snake |-> Append(sn, np.pos), new_apple |-> TRUE, res |-> "Ok"]
           [] st = "Empty" ->
                [snake |-> Append(sn, np.pos), new_apple |-> FALSE, res |-> "Ok"]

\* A wrong advance: an Empty cell pops the head (pop_back) instead of the tail.
advance_popback_mut(sn, apple, size, dir) ==
    LET np == next_pos(sn, dir) IN
    IF ~np.ok THEN [snake |-> sn, new_apple |-> FALSE, res |-> "OutOfBounds"]
    ELSE LET st == check_pos(np.pos, size, apple, sn) IN
         CASE st \in {"OutOfBounds", "SnakeBite"} ->
                [snake |-> sn, new_apple |-> FALSE, res |-> st]
           [] st = "Apple" ->
                [snake |-> Append(sn, np.pos), new_apple |-> TRUE, res |-> "Ok"]
           [] st = "Empty" ->
                [snake |-> Append(SubSeq(sn, 1, Len(sn) - 1), np.pos),
                 new_apple |-> FALSE, res |-> "Ok"]

\* Game::advance with self.direction = dir.  res is "Ok" or the GameOverState;
\* new_apple tells that new_apple() ran.
advance(sn, apple, size, dir) ==
    LET np == next_pos(sn, dir) IN
    IF ~np.ok THEN [snake |-> sn, new_apple |-> FALSE, res |-> "OutOfBounds"]
    ELSE LET st == check_pos(np.pos, size, apple, sn) IN
         CASE st \in {"OutOfBounds", "SnakeBite"} ->
                [snake |-> sn, new_apple |-> FALSE, res |-> st]
           [] st = "Apple" ->
                [snake |-> Append(sn, np.pos), new_apple |-> TRUE, res |-> "Ok"]
           [] st = "Empty" ->
                [snake |-> Append(Tail(sn), np.pos), new_apple |-> FALSE, res |-> "Ok"]

\* A wrong update: a successful MoveAndTurn advances a second time, in the new
\* direction.
update_twice_mut(sn, apple, size, step) ==
    LET a == advance(sn, apple, size, step.step_direction)
        b == advance(a.snake, apple, size, step.new_direction) IN
    IF step.type = "MoveAndTurn" /\ a.res = "Ok"
    THEN [snake |-> b.snake, new_apple |-> a.new_apple \/ b.new_apple, res |-> b.res,
          direction |-> step.new_direction]
    ELSE [snake |-> a.snake, new_apple |-> a.new_apple, res |-> a.res,
          direction |-> IF a.res = "Ok" THEN step.new_direction ELSE step.step_direction]

\* A wrong update: the new direction is set whether the advance succeeds or not.
update_turn_mut(sn, apple, size, step) ==
    LET a == advance(sn, apple, size, step.step_direction) IN
    [snake |-> a.snake, new_apple |-> a.new_apple, res |-> a.res,
     direction |-> step.new_direction]

\* Game::update: the heading is set to the step direction, the snake advances,
\* and only a successful MoveAndTurn then sets the new direction.
update(sn, apple, size, step) ==
    LET a == advance(sn, apple, size, step.step_direction) IN
    [snake |-> a.snake, new_apple |-> a.new_apple, res |-> a.res,
     direction |-> IF a.res = "Ok" THEN step.new_direction ELSE step.step_direction]

\* ------------------------------------------------------------------ state

VARIABLES
    board_size,   \* Game.board_size, <<rows, cols>>
    snake,        \* Game.snake
    snake_old,    \* Game.snake_old
    apple_pos,    \* Game.apple_pos
    apple_old,    \* Game.apple_old
    direction,    \* Game.direction
    chan,         \* the mpsc channel: Inputs sent and not yet received
    sent,         \* direction commands sent so far
    alive,        \* the input thread runs (its Sender is not dropped)
    inputQueue,   \* the update closure's local Vec<Direction>
    pc,           \* "idle" | "drain" | "render" | "stopped"
    exit_next,    \* set by g.exit(): the loop stops before the next frame
    screen,       \* the glyph shown at each board cell
    ticks,        \* update calls so far
    h0,           \* the heading at the start of the running tick
    last,         \* what the tick just completed did (cleared by render)
    drained       \* what the drain of that tick received (ThreadsSpec, FairSpec)

vars == <<board_size, snake, snake_old, apple_pos, apple_old, direction, chan,
          sent, alive, inputQueue, pc, exit_next, screen, ticks, h0, last, drained>>

NoTick ==
    [done |-> FALSE, h |-> "Right", snake |-> <<>>, apple |-> <<0, 0>>,
     motion |-> "Right", res |-> "Ok"]

NoDrain == [done |-> FALSE, turns |-> <<>>, quit |-> FALSE]

\* Game::new, render_board, and the first frame of game_loop, which only
\* renders: its elapsed time is capped at 0.16 s, less than the 0.25 s step.
Init ==
    /\ board_size \in (1..MaxRows) \X (InitLen..MaxCols)
    /\ snake = [n \in 1..InitLen |-> <<0, n - 1>>]
    /\ snake_old = snake
    /\ apple_pos \in Cells(board_size)
    /\ apple_old \in Cells(board_size)
    /\ direction = "Right"
    /\ chan = <<>>
    /\ sent = 0
    /\ alive = TRUE
    /\ inputQueue = <<>>
    /\ pc = "render"
    /\ exit_next = FALSE
    /\ screen = [c \in Cells(board_size) |-> " "]
    /\ ticks = 0
    /\ h0 = "Right"
    /\ last = NoTick
    /\ drained = NoDrain

\* ------------------------------------------------------- update closure

\* What try_recv leaves in the channel when it returns Ok(input).
recv_rest(ch) == Tail(ch)

\* try_recv returns Ok(input): an Input is buffered.
try_recv_ok(ch) == ch # <<>>

\* A blocking recv(): it returns Err only once the Sender is dropped.
try_recv_err_mut(ch) == ch = <<>> /\ ~alive

\* try_recv returns Err (Empty or Disconnected): nothing is buffered.
try_recv_err(ch) == ch = <<>>

\* A wrong exit(): the flag is left as it was.
exit_mut(flag) == flag

\* g.exit(): game_loop only sets exit_next_iteration; the closure runs on.
exit(flag) == TRUE

\* The closure's locals and the fields it writes while draining.
Drain(dir, queue, ex) == [direction |-> dir, inputQueue |-> queue, exit_next |-> ex]

\* The body of the while-let loop for one received input.
recv_one(st, input) ==
    LET d == try_from(input) IN
    IF d # "Err"
    THEN Drain(drain_turn(st.direction, d), Append(st.inputQueue, d), st.exit_next)
    ELSE Drain(st.direction, st.inputQueue, exit(st.exit_next))

\* The whole while-let loop over the inputs cmds found in the channel.
RECURSIVE drain_loop(_, _)
drain_loop(st, cmds) ==
    IF cmds = <<>> THEN st ELSE drain_loop(recv_one(st, Head(cmds)), Tail(cmds))

\* Line 51 after a drain that ended in state st.
Drained(st) ==
    [update_step |-> get_step(st.direction, st.inputQueue), exit_next |-> st.exit_next]

\* Lines 52-54 for the step and exit flag st: update, and g.exit() on GameOver.
\* start is the heading the tick began with.
Resolve(st, start) ==
    LET update_step == st.update_step
        u == update(snake, apple_pos, board_size, update_step) IN
    /\ snake' = u.snake
    /\ apple_pos' \in IF u.new_apple THEN gen_apple(board_size[1], board_size[2])
                       ELSE {apple_pos}
    /\ direction' = u.direction
    /\ exit_next' = IF u.res # "Ok" THEN exit(st.exit_next) ELSE st.exit_next
    /\ h0' = u.direction
    /\ last' = [done |-> TRUE, h |-> start, snake |-> snake, apple |-> apple_pos,
                motion |-> update_step.step_direction, res |-> u.res]
    /\ inputQueue' = <<>>
    /\ pc' = "render"

BoundedSeq(S, n) == UNION {[1..k -> S] : k \in 0..n}

\* One call of the update closure, the channel holding cmds when it drains.
Update ==
    /\ pc = "idle"
    /\ ticks < MaxTicks
    /\ ticks' = ticks + 1
    /\ \E st \in {Drained(drain_loop(Drain(direction, <<>>, exit_next), cmds)) :
                      cmds \in BoundedSeq(Input, MaxQueue)} :
          Resolve(st, direction)
    /\ UNCHANGED <<board_size, snake_old, apple_old, chan, sent, alive, screen, drained>>

\* ------------------------------------------------------- render closure

\* The four passes of Game::render over the screen, in the source's order.
erase_snake_old(scr) == [c \in DOMAIN scr |-> IF c \in Range(snake_old) THEN " " ELSE scr[c]]

draw_snake(scr) == [c \in DOMAIN scr |-> IF c \in Range(snake) THEN "S" ELSE scr[c]]

erase_apple_old(scr) == [c \in DOMAIN scr |-> IF c = apple_old THEN " " ELSE scr[c]]

draw_apple(scr) == [c \in DOMAIN scr |-> IF c = apple_pos THEN "A" ELSE scr[c]]

\* Game::render
render(scr) == draw_apple(erase_apple_old(draw_snake(erase_snake_old(scr))))

\* game_loop calls the render closure, at the end of every frame; the frame
\* after g.exit() does not start.
Render ==
    /\ pc \in {"render", "idle"}
    /\ screen' = render(screen)
    /\ snake_old' = snake
    /\ apple_old' = apple_pos
    /\ pc' = IF exit_next THEN "stopped" ELSE "idle"
    /\ last' = NoTick
    /\ drained' = NoDrain
    /\ UNCHANGED <<board_size, snake, apple_pos, direction, chan, sent, alive,
                   inputQueue, exit_next, ticks, h0>>

\* -------------------------------------------------------- specification

Next == Update \/ Render

Spec == Init /\ [][Next]_vars

\* ------------------------------------------ the two threads, step by step

\* One iteration of the input thread's loop: read() returns key event k, and
\* the Input it maps to, if any, is sent.  At most limit direction commands
\* are sent in a game, and at most one Exit is buffered at a time.
Key(limit) ==
    /\ alive
    /\ pc # "stopped"
    /\ \E k \in Keys :
          LET i == KeyToInput(k) IN
          CASE i = "none" -> UNCHANGED <<chan, sent>>
            [] i = "Exit" ->
                 /\ "Exit" \notin Range(chan)
                 /\ chan' = Append(chan, i)
                 /\ UNCHANGED sent
            [] OTHER ->
                 /\ sent < limit
                 /\ chan' = Append(chan, i)
                 /\ sent' = sent + 1
    /\ UNCHANGED <<board_size, snake, snake_old, apple_pos, apple_old, direction,
                   alive, inputQueue, pc, exit_next, screen, ticks, h0, last, drained>>

\* read() fails: unwrap() panics, the thread ends and its Sender is dropped.
ReadFault ==
    /\ alive
    /\ pc # "stopped"
    /\ alive' = FALSE
    /\ UNCHANGED <<board_size, snake, snake_old, apple_pos, apple_old, direction,
                   chan, sent, inputQueue, pc, exit_next, screen, ticks, h0, last, drained>>

\* game_loop calls the update closure: a tick starts with an empty inputQueue.
BeginUpdate ==
    /\ pc = "idle"
    /\ pc' = "drain"
    /\ inputQueue' = <<>>
    /\ h0' = direction
    /\ UNCHANGED <<board_size, snake, snake_old, apple_pos, apple_old, direction,
                   chan, sent, alive, exit_next, screen, ticks, last, drained>>

\* One iteration of the while-let loop: try_recv returned Ok(input).
Recv ==
    /\ pc = "drain"
    /\ try_recv_ok(chan)
    /\ LET st == recv_one(Drain(direction, inputQueue, exit_next), Head(chan)) IN
       /\ chan' = recv_rest(chan)
       /\ inputQueue' = st.inputQueue
       /\ direction' = st.direction
       /\ exit_next' = st.exit_next
    /\ UNCHANGED <<board_size, snake, snake_old, apple_pos, apple_old, sent, alive, pc,
                   screen, ticks, h0, last, drained>>

\* try_recv returned Err: the loop ends, and the rest of the closure runs.
EndDrain ==
    /\ pc = "drain"
    /\ try_recv_err(chan)
    /\ Resolve(Drained(Drain(direction, inputQueue, exit_next)), h0)
    /\ drained' = [done |-> TRUE, turns |-> inputQueue, quit |-> exit_next]
    /\ UNCHANGED <<board_size, snake_old, apple_old, chan, sent, alive, screen, ticks>>

GameLoop == BeginUpdate \/ Recv \/ EndDrain \/ Render

ThreadsNext == Key(MaxTurns) \/ ReadFault \/ GameLoop

\* A game on the largest board with the apple in the corner opposite the snake.
ThreadsInit ==
    /\ Init
    /\ board_size = <<MaxRows, MaxCols>>
    /\ apple_pos = <<MaxRows - 1, 0>>
    /\ apple_old = apple_pos

ThreadsSpec == ThreadsInit /\ [][ThreadsNext]_vars

FairNext == Key(MaxBurst) \/ ReadFault \/ GameLoop

\* The game loop's thread is scheduled: it is never suspended forever.
FairSpec == ThreadsInit /\ [][FairNext]_vars /\ WF_vars(GameLoop)

\* ------------------------------------------------- a game without input

\* Game::new and the first frame, as Init, on the boards of QuietSpec.
QuietInit ==
    /\ board_size \in (1..MaxRunRows) \X (InitLen..MaxRunCols)
    /\ snake = [n \in 1..InitLen |-> <<0, n - 1>>]
    /\ snake_old = snake
    /\ apple_pos \in Cells(board_size)
    /\ apple_old \in Cells(board_size)
    /\ direction = "Right"
    /\ chan = <<>>
    /\ sent = 0
    /\ alive = TRUE
    /\ inputQueue = <<>>
    /\ pc = "render"
    /\ exit_next = FALSE
    /\ screen = [c \in Cells(board_size) |-> " "]
    /\ ticks = 0
    /\ h0 = "Right"
    /\ last = NoTick
    /\ drained = NoDrain

\* One call of the update closure whose first try_recv finds the channel empty.
QuietUpdate ==
    /\ pc = "idle"
    /\ ticks' = ticks + 1
    /\ Resolve(Drained(drain_loop(Drain(direction, <<>>, exit_next), <<>>)), direction)
    /\ UNCHANGED <<board_size, snake_old, apple_old, chan, sent, alive, screen, drained>>

QuietNext == QuietUpdate \/ Render

QuietSpec == QuietInit /\ [][QuietNext]_vars

\* ------------------------------------------------- vocabulary of the claims

Opposite(d) ==
    CASE d = "Up" -> "Down"
      [] d = "Down" -> "Up"
      [] d = "Left" -> "Right"
      [] d = "Right" -> "Left"

\* The turn rule as specified: only the exact reverse is illegal.
is_valid_turn(current, proposed) == proposed # Opposite(current)

\* The orthogonal neighbour of a cell, in the integers.
Shift(cell, d) ==
    CASE d = "Up" -> <<cell[1] - 1, cell[2]>>
      [] d = "Down" -> <<cell[1] + 1, cell[2]>>
      [] d = "Left" -> <<cell[1], cell[2] - 1>>
      [] d = "Right" -> <<cell[1], cell[2] + 1>>

Head_(sn) == sn[Len(sn)]

\* The tick just completed moved in direction d: a successful tick put the head
\* on the neighbour in direction d, a failed one left the snake alone.
AdvancedIn(d) ==
    /\ last.motion = d
    /\ last.res = "Ok" => Head_(snake) = Shift(Head_(last.snake), d)
    /\ last.res # "Ok" => snake = last.snake

\* A tick of the threads model has just completed.
TickDone == pc = "render" /\ last.done /\ drained.done

SingleValid(h, turns) == Len(turns) = 1 /\ is_valid_turn(h, turns[1])

DoubleValid(h, turns) ==
    /\ Len(turns) >= 2
    /\ is_valid_turn(h, turns[Len(turns) - 1])
    /\ is_valid_turn(turns[Len(turns) - 1], turns[Len(turns)])

\* ------------------------------------------------------------------ claims

\* C1: a drained queue that is neither a single valid turn nor ends in two
\* valid turns (validity taken from the heading h at the start of the tick)
\* has no effect: the tick advances in direction h and the heading stays h.
C1_FallbackKeepsHeading ==
    (TickDone /\ ~SingleValid(last.h, drained.turns) /\ ~DoubleValid(last.h, drained.turns))
        => (AdvancedIn(last.h) /\ direction = last.h)

\* C2: a drained queue of two or more turns whose last two entries a, b are
\* valid (a from the heading h at the start of the tick, b from a) makes the
\* tick advance one cell in direction a and, the advance succeeding, leaves the
\* heading b, whatever the earlier entries are.
C2_DoubleTurn ==
    (TickDone /\ DoubleValid(last.h, drained.turns))
        => /\ AdvancedIn(drained.turns[Len(drained.turns) - 1])
           /\ last.res = "Ok" => direction = drained.turns[Len(drained.turns)]

\* C5: a tick whose drain read a Quit command changes neither the snake, nor
\* the apple, nor the heading.
C5_QuitAbortsTick ==
    (TickDone /\ drained.quit)
        => (snake = last.snake /\ apple_pos = last.apple /\ direction = last.h)

\* A command is enqueued on the channel.
Enqueue == Len(chan') = Len(chan) + 1

C8_ValidDirection ==
    \A proposed \in Direction :
        /\ valid_direction(direction, proposed) <=> proposed # Opposite(direction)
        /\ valid_direction(direction, direction)

\* C8 witness: a tick whose only queued turn was the reverse of a downward
\* heading, so that the validator rejected it.
C8_Witness == TickDone /\ last.h = "Down" /\ drained.turns = <<"Up">> /\ direction = "Down"

\* C9: a drained queue holding exactly one turn t that is valid from the
\* heading h at the start of the tick makes the tick advance one cell in
\* direction t and leaves the heading t.
C9_SingleTurn ==
    (TickDone /\ SingleValid(last.h, drained.turns))
        => (AdvancedIn(drained.turns[1]) /\ direction = drained.turns[1])

\* C9 witness: heading Right, queue [Down], and the head one row further down.
C9_Witness ==
    /\ TickDone /\ last.h = "Right" /\ drained.turns = <<"Down">> /\ last.res = "Ok"
    /\ direction = "Down" /\ Head_(snake) = <<1, InitLen - 1>>

\* C10: a tick whose drain finds no command advances one cell in the heading
\* held at its start and leaves the heading unchanged.
C10_EmptyQueue ==
    (TickDone /\ drained.turns = <<>> /\ ~drained.quit)
        => (AdvancedIn(last.h) /\ direction = last.h)

\* C10 witness: a tick with nothing drained moved the head one cell to the
\* left, the heading being Left before and after.
C10_Witness ==
    /\ TickDone /\ drained.turns = <<>> /\ ~drained.quit /\ last.h = "Left"
    /\ last.res = "Ok" /\ direction = "Left"
    /\ Head_(snake) = Shift(Head_(last.snake), "Left")

\* C3: a tick whose next head cell is inside the board ends in SnakeBite
\* exactly when that cell is one of the snake's cells, wherever the apple is.
C3_SnakeBiteIffOccupied ==
    (pc = "render" /\ last.done /\ Shift(Head_(last.snake), last.motion) \in Cells(board_size))
        => (last.res = "SnakeBite"
              <=> Shift(Head_(last.snake), last.motion) \in Range(last.snake))

\* C4: the snake never holds the same cell twice.
C4_NoTwoEqualCells == Cardinality(Range(snake)) = Len(snake)

\* The cells away from the snake and the apple are blank.
RestIsBlank ==
    \A c \in Cells(board_size) : (c \notin Range(snake) /\ c # apple_pos) => screen[c] = " "

\* C7: after every render pass the apple cell shows the apple glyph, every
\* other cell of the snake shows the snake glyph, and the remaining cells are
\* blank.
C7_ScreenShowsState ==
    pc # "render"
        => /\ screen[apple_pos] = "A"
           /\ \A c \in Range(snake) : c # apple_pos => screen[c] = "S"
           /\ RestIsBlank

\* The cell the tick just completed tried to enter.
NextCell == Shift(Head_(last.snake), last.motion)

\* The move from cell in direction d leaves a board of the given size.
LeavesBoard(cell, d, size) ==
    \/ d = "Up" /\ cell[1] = 0
    \/ d = "Left" /\ cell[2] = 0
    \/ d = "Down" /\ cell[1] = size[1] - 1
    \/ d = "Right" /\ cell[2] = size[2] - 1

OntoEmpty ==
    /\ last.done
    /\ NextCell \in Cells(board_size)
    /\ NextCell # last.apple
    /\ NextCell \notin Range(last.snake)

\* C12: a tick that moves the head onto an Empty cell leaves the old snake
\* without its tail and with the new head appended, of the same length, and
\* leaves the apple where it was.
C12_NormalMove ==
    OntoEmpty
        => /\ snake = Append(Tail(last.snake), NextCell)
           /\ Len(snake) = Len(last.snake)
           /\ apple_pos = last.apple
           /\ last.res = "Ok"

\* C12 witness: a tick moved a six-cell snake onto an Empty cell.
C12_Witness == OntoEmpty /\ Len(last.snake) = InitLen + 1 /\ Len(snake) = InitLen + 1

\* The tick just completed tried to enter the apple cell, inside the board.
OntoApple == last.done /\ NextCell = last.apple

\* C13: a tick that moves the head onto the apple cell leaves the whole old
\* snake with the new head appended, does not end in GameOver, and leaves the
\* apple on a cell of the board; no tick shortens the snake or lengthens it by
\* more than one cell.
C13_Growth ==
    /\ OntoApple
          => /\ snake = Append(last.snake, NextCell)
             /\ last.res = "Ok"
             /\ apple_pos \in Cells(board_size)
    /\ last.done => Len(snake) - Len(last.snake) \in {0, 1}

\* C13 witness: the head entered the apple cell, the snake grew from five to
\* six cells and the fresh apple lies on another cell.
C13_Witness ==
    /\ OntoApple /\ Len(last.snake) = InitLen /\ Len(snake) = InitLen + 1
    /\ apple_pos # last.apple /\ Head_(snake) = last.apple

\* C14: every cell of the snake and the apple cell lie on the board; a tick
\* whose next head cell is off the board ends in OutOfBounds and stores nothing.
C14_CellsOnBoard ==
    /\ board_size[1] >= 1 /\ board_size[2] >= InitLen
    /\ Range(snake) \subseteq Cells(board_size)
    /\ apple_pos \in Cells(board_size)
    /\ (last.done /\ NextCell \notin Cells(board_size))
          => (last.res = "OutOfBounds" /\ snake = last.snake)

\* C14 witness: a tick whose next head cell was below the last row ended in
\* OutOfBounds with the snake as it was.
C14_Witness ==
    /\ last.done /\ last.motion = "Down" /\ NextCell[1] = board_size[1]
    /\ last.res = "OutOfBounds" /\ snake = last.snake

\* A tick whose drain read no Quit command marks the loop to stop exactly when
\* it ends in GameOver.
StopsByGameOver == (TickDone /\ ~drained.quit) => (exit_next <=> last.res # "Ok")

\* C15: if the input thread eventually delivers no further command (it died
\* or fell silent), the game loop does not hang: it comes to its end, and a
\* tick that read no Quit command ends it only by ending in GameOver.
C15_InputFaultCannotHang ==
    /\ []StopsByGameOver
    /\ (<>[][~Enqueue]_vars) => <>(pc = "stopped")

\* C15 witness: the input thread is dead, and a tick that drained nothing
\* has advanced into the wall and ended the game.
C15_Witness ==
    /\ ~alive /\ TickDone /\ drained.turns = <<>> /\ ~drained.quit
    /\ last.res = "OutOfBounds" /\ exit_next

\* The number of ticks a snake that only moves Right survives on the board.
FreeTicks == board_size[2] - InitLen

\* C16: in a game without input on a board of C >= 5 columns, each of the
\* first C - 5 ticks succeeds and moves the head one column to the right, tick
\* number C - 4 ends in OutOfBounds and is the last; with five columns that is
\* the first tick, wherever the apple is.
C16_RunToTheWall ==
    last.done
        => /\ last.h = "Right" /\ last.motion = "Right"
           /\ ticks <= FreeTicks + 1
           /\ ticks <= FreeTicks
                 => (last.res = "Ok" /\ Head_(snake) = <<0, InitLen - 1 + ticks>>)
           /\ ticks = FreeTicks + 1
                 => (last.res = "OutOfBounds" /\ Head_(snake) = <<0, board_size[2] - 1>>)

\* C16 witness: on a board of seven columns the third tick has ended in
\* OutOfBounds, the head being in the last column.
C16_Witness ==
    /\ last.done /\ board_size[2] = InitLen + 2 /\ ticks = 3
    /\ last.res = "OutOfBounds" /\ Head_(snake) = <<0, InitLen + 1>>

\* The direction of the move that put the head of sn where it is: from the
\* cell before the head to the head (for the initial snake, Right).
PrevMotion(sn) == CHOOSE d \in Direction : Shift(sn[Len(sn) - 1], d) = Head_(sn)

\* C17: the direction in which a tick moves the head is never the exact
\* opposite of the direction in which the previous tick moved it (for the
\* first tick, of the initial heading Right).
C17_NoReversal ==
    (last.done /\ last.res = "Ok") => last.motion # Opposite(PrevMotion(last.snake))

\* C18: a tick that does not end in GameOver performs exactly one positional
\* step, however many commands it drained: the new head is the neighbour of
\* the old head in the tick's motion direction, and the cells before it are
\* the old snake, with or without its tail; the second turn of a two-turn tick
\* changes the heading only.
C18_OneStepPerTick ==
    (last.done /\ last.res = "Ok")
        => /\ Head_(snake) = NextCell
           /\ snake \in {Append(last.snake, NextCell), Append(Tail(last.snake), NextCell)}

\* C18 witness: a two-turn tick moved the head one cell Down from the start
\* of the first row and left the heading Left, the second turn.
C18_Witness ==
    /\ last.done /\ last.res = "Ok" /\ last.h = "Right" /\ last.motion = "Down"
    /\ direction = "Left" /\ Head_(last.snake) = <<0, InitLen - 1>>
    /\ Head_(snake) = <<1, InitLen - 1>>

\* C19: a tick that ends in GameOver leaves the snake and the apple as they
\* were before it, and the heading is the direction of the failed move: the
\* second turn of a two-turn tick is not applied.
C19_GameOverKeepsState ==
    (TickDone /\ last.res # "Ok")
        => (snake = last.snake /\ apple_pos = last.apple /\ direction = last.motion)

\* C19 witness: heading Right, queue [Up, Left]: the move Up from row 0 ended
\* in OutOfBounds and the heading is Up, not Left.
C19_Witness ==
    /\ TickDone /\ last.h = "Right" /\ drained.turns = <<"Up", "Left">>
    /\ last.motion = "Up" /\ last.res = "OutOfBounds" /\ direction = "Up"
    /\ snake = last.snake

\* Two cells differ by exactly 1 in exactly one coordinate.
Adjacent(a, b) ==
    \/ a[1] = b[1] /\ (a[2] - b[2] = 1 \/ b[2] - a[2] = 1)
    \/ a[2] = b[2] /\ (a[1] - b[1] = 1 \/ b[1] - a[1] = 1)

\* C20: the snake is connected, any two consecutive cells of the sequence
\* being orthogonal neighbours, and it has at least five cells.
C20_Connected ==
    /\ Len(snake) >= InitLen
    /\ \A i \in 1..(Len(snake) - 1) : Adjacent(snake[i], snake[i + 1])

\* C20 witness: a snake that has grown to six cells and moved on, bent over
\* two rows.
C20_Witness ==
    /\ last.done /\ last.res = "Ok" /\ Len(last.snake) = InitLen + 1
    /\ Len(snake) = InitLen + 1 /\ snake[1][1] # Head_(snake)[1]

====
